---------------------------- MODULE Spec2Model ----------------------------
(***************************************************************************)
(* A model of the Google Maps lead scraper (src/main.go): the lead store   *)
(* (initDB, insertBusiness), the start of a run (buildQueries), the result *)
(* collector (collectPlaceURLs), the per-candidate enrichment chain        *)
(* (scrapePlacePage, scrapeWebsite), the field extractors, and the query   *)
(* loop with its shutdown signal (scrapeQuery, main).                      *)
(*                                                                         *)
(* Go strings are TLA+ strings; Len, SubSeq and \o act on them as on       *)
(* sequences of characters.  A time.Time is a number of clock ticks.       *)
(***************************************************************************)
EXTENDS Integers, Sequences, FiniteSets, TLC

VARIABLES
    store,      \* the rows of table businesses, in insertion order
    dbOpen,     \* TRUE between initDB and the deferred db.Close()
    nput,       \* number of insertBusiness calls made so far
    last,       \* the most recent insertBusiness call, as its caller saw it
    seen,       \* the <<err, row added>> pairs the callers have met so far
    env,        \* what the browser, the clock and the disk can answer in this run
    cfg,        \* the Config loaded from config.json
    queries,    \* the queries buildQueries returned
    pc,         \* where main is
    qi,         \* index into queries of the current loop iteration (from 1)
    col,        \* the locals of collectPlaceURLs
    gcol,       \* what the collection loop has done so far (history)
    placeURLs,  \* the references scrapeQuery iterates over
    ci,         \* index into placeURLs of the current candidate (from 1)
    cur,        \* the locals of scrapePlacePage for the current candidate
    obs,        \* what scrapePlacePage has read and done for the current candidate (history)
    cancelled,  \* rootCtx.Err() != nil: an interrupt or SIGTERM has been received
    visits      \* the references handed to scrapePlacePage in this query (history)

storeVars == <<store, dbOpen, nput, last, seen>>
conf == <<env, cfg, queries>>
pipeVars == <<pc, qi, col, gcol, placeURLs, ci, cur, obs, cancelled, visits>>
vars == <<store, dbOpen, nput, last, seen, env, cfg, queries, pc, qi, col, gcol,
          placeURLs, ci, cur, obs, cancelled, visits>>

-----------------------------------------------------------------------------
(* Bounds of the model.                                                    *)

MaxPuts == 4          \* insertBusiness calls explored by SpecStore
TicksPerSecond == 2   \* clock ticks in one second of time.Time
NumQueries == 2       \* queries of a run of Spec
NumPlaces == 2        \* distinct references a feed of SpecCollect can show
MaxMatches == 2       \* matches of one pattern in a detail page of SpecFields
MaxLocations == 2     \* entries of the locations list of a config of SpecStart

(* Constants of the program.                                               *)

DefaultMaxScrollAttempts == 20
StallThreshold == 3

-----------------------------------------------------------------------------
(* strings: the parts of package strings the program uses.                 *)

UpperAlpha == "ABCDEFGHIJKLMNOPQRSTUVWXYZ"
LowerAlpha == "abcdefghijklmnopqrstuvwxyz"

CharAt(s, i) == SubSeq(s, i, i)

LowerChar(c) ==
    IF \E i \in 1..Len(UpperAlpha) : CharAt(UpperAlpha, i) = c
    THEN CharAt(LowerAlpha, CHOOSE i \in 1..Len(UpperAlpha) : CharAt(UpperAlpha, i) = c)
    ELSE c

RECURSIVE ToLower(_)
ToLower(s) == IF s = "" THEN "" ELSE LowerChar(CharAt(s, 1)) \o ToLower(Tail(s))

\* strings.Index: the 0-based offset of the first occurrence of sub, or -1.
Index(s, sub) ==
    LET hits == {i \in 0..(Len(s) - Len(sub)) : SubSeq(s, i + 1, i + Len(sub)) = sub}
    IN  IF hits = {} THEN -1 ELSE CHOOSE i \in hits : \A j \in hits : i <= j

Contains(s, sub) == Index(s, sub) # -1

IsSpace(c) == c \in {" ", "\t", "\n", "\r"}

RECURSIVE TrimLeft(_)
TrimLeft(s) == IF s # "" /\ IsSpace(CharAt(s, 1)) THEN TrimLeft(Tail(s)) ELSE s

RECURSIVE TrimRight(_)
TrimRight(s) ==
    IF s # "" /\ IsSpace(CharAt(s, Len(s))) THEN TrimRight(SubSeq(s, 1, Len(s) - 1)) ELSE s

TrimSpace(s) == TrimRight(TrimLeft(s))

-----------------------------------------------------------------------------
(* Field extractors.  A page's markup is represented by what the program's *)
(* regular expressions find in it (regexp.FindAllString, in document       *)
(* order): html.emails for emailRegex, html.phones[k] for phonePatterns[k] *)
(* and html.sites for websiteRegex.                                        *)

invalidEmailPatterns ==
    <<"example.com", "@example", ".png", ".jpg", ".gif", "sampleemail", "youremail", "noreply">>

mapsWebsiteSkipKeywords ==
    <<"google", "facebook", "instagram", "youtube", "linkedin", "twitter", "gstatic",
      "googleapis", "schema.org">>

socialDomainsToSkip ==
    <<"facebook.com", "linkedin.com", "instagram.com", "youtube.com", "twitter.com">>

googleMapsResultSelectors ==
    <<"a[href*=\"/maps/place/\"]", "div.Nv2PK a", "a.hfpxzc", "div[role=\"article\"] a">>

ContainsAny(s, subs) == \E k \in 1..Len(subs) : Contains(s, subs[k])

Digits == "0123456789"
IsDigit(c) == \E i \in 1..Len(Digits) : CharAt(Digits, i) = c
DigitVal(c) == (CHOOSE i \in 1..Len(Digits) : CharAt(Digits, i) = c) - 1

\* nonDigitRegexp.ReplaceAllString(s, "")
RECURSIVE OnlyDigits(_)
OnlyDigits(s) ==
    IF s = "" THEN ""
    ELSE (IF IsDigit(CharAt(s, 1)) THEN CharAt(s, 1) ELSE "") \o OnlyDigits(Tail(s))

\* strconv.Atoi of a string of digits
RECURSIVE Atoi(_)
Atoi(d) == IF d = "" THEN 0 ELSE 10 * Atoi(SubSeq(d, 1, Len(d) - 1)) + DigitVal(CharAt(d, Len(d)))

\* extractEmails: the matches, trimmed, without those that hold an excluded
\* pattern and without repeats (compared in lower case).
RECURSIVE extractEmailsFrom(_, _)
extractEmailsFrom(matches, out) ==
    IF matches = <<>> THEN out
    ELSE LET email == TrimSpace(Head(matches))
             lower == ToLower(email)
             dup   == \E k \in 1..Len(out) : ToLower(out[k]) = lower
         IN  extractEmailsFrom(Tail(matches),
                 IF dup \/ ContainsAny(lower, invalidEmailPatterns)
                 THEN out ELSE Append(out, email))

extractEmails(html) == extractEmailsFrom(html.emails, <<>>)

FirstMatchUnfiltered(html) == IF html.emails = <<>> THEN "" ELSE TrimSpace(html.emails[1])
extractFirstEmail(html) ==
    LET emails == extractEmails(html) IN IF Len(emails) = 0 THEN "" ELSE emails[1]

NoYearCheck(digits) ==
    Len(digits) > 15 \/ \A i \in 2..Len(digits) : CharAt(digits, i) = CharAt(digits, 1)
isInvalidPhone(digits) ==
    \/ /\ Len(digits) = 8
       /\ Atoi(SubSeq(digits, 1, 4)) >= 1900
       /\ Atoi(SubSeq(digits, 1, 4)) <= 2100
    \/ Len(digits) > 15
    \/ \A i \in 2..Len(digits) : CharAt(digits, i) = CharAt(digits, 1)

formatPhone(phone) ==
    LET digits == OnlyDigits(phone)
    IN  IF Len(digits) = 10
        THEN "(" \o SubSeq(digits, 1, 3) \o ") " \o SubSeq(digits, 4, 6) \o "-" \o SubSeq(digits, 7, 10)
        ELSE IF Len(digits) = 11 /\ CharAt(digits, 1) = "1"
        THEN "+1 (" \o SubSeq(digits, 2, 4) \o ") " \o SubSeq(digits, 5, 7) \o "-" \o SubSeq(digits, 8, 11)
        ELSE phone

\* extractPhone: the first match, pattern by pattern, that passes the digit
\* count and isInvalidPhone, formatted.
PhoneOk(m, minDigits) ==
    LET digits == OnlyDigits(m)
    IN  Len(digits) >= minDigits /\ Len(digits) <= 15 /\ ~isInvalidPhone(digits)

extractPhone(html, minDigits) ==
    LET all  == html.phones[1] \o html.phones[2]
        good == {k \in 1..Len(all) : PhoneOk(all[k], minDigits)}
    IN  IF good = {} THEN ""
        ELSE formatPhone(all[CHOOSE k \in good : \A j \in good : k <= j])

extractWebsiteFromHTML(html) ==
    LET good == {k \in 1..Len(html.sites) :
                    ~ContainsAny(ToLower(TrimSpace(html.sites[k])), mapsWebsiteSkipKeywords)}
    IN  IF good = {} THEN ""
        ELSE TrimSpace(html.sites[CHOOSE k \in good : \A j \in good : k <= j])

\* strings.IndexAny(u, "?#")
IndexAny(s, chars) ==
    LET hits == {i \in 0..(Len(s) - 1) : \E k \in 1..Len(chars) : CharAt(s, i + 1) = CharAt(chars, k)}
    IN  IF hits = {} THEN -1 ELSE CHOOSE i \in hits : \A j \in hits : i <= j

\* strings.Split(u, sep)[1], for a u that holds sep
SplitSecond(u, sep) ==
    LET rest == SubSeq(u, Index(u, sep) + Len(sep) + 1, Len(u))
    IN  IF Contains(rest, sep) THEN SubSeq(rest, 1, Index(rest, sep)) ELSE rest

cleanWebsiteURL(raw) ==
    LET u0 == TrimSpace(raw)
        u1 == IF Contains(u0, "/url?q=")
              THEN LET q == SplitSecond(u0, "/url?q=")
                   IN  IF Index(q, "&") # -1 THEN SubSeq(q, 1, Index(q, "&")) ELSE q
              ELSE u0
    IN  IF u0 = "" THEN ""
        ELSE IF IndexAny(u1, "?#") # -1 THEN SubSeq(u1, 1, IndexAny(u1, "?#")) ELSE u1

\* parseRating: the first number of the text, with '.' or ',' as the decimal
\* separator; 0 when there is none.  A float64 is represented in thousandths.
RECURSIVE DigitRun(_)
DigitRun(s) ==
    IF s # "" /\ IsDigit(CharAt(s, 1)) THEN CharAt(s, 1) \o DigitRun(Tail(s)) ELSE ""

RECURSIVE SkipToDigit(_)
SkipToDigit(s) == IF s = "" \/ IsDigit(CharAt(s, 1)) THEN s ELSE SkipToDigit(Tail(s))

Thousandths(frac) == Atoi(SubSeq(frac \o "000", 1, 3))

parseRating(raw) ==
    LET text == SkipToDigit(TrimSpace(raw))
        int  == DigitRun(text)
        rest == SubSeq(text, Len(int) + 1, Len(text))
        frac == IF rest # "" /\ CharAt(rest, 1) \in {".", ","}
                THEN DigitRun(Tail(rest)) ELSE ""
    IN  IF text = "" THEN 0 ELSE 1000 * Atoi(int) + Thousandths(frac)

\* extractTextBySelectors: the trimmed text of the first selector that can be
\* read and is not blank.  results[k] is what chromedp.Text gave for selector k.
extractTextBySelectors(results) ==
    LET good == {k \in 1..Len(results) : ~results[k].err /\ TrimSpace(results[k].text) # ""}
    IN  IF good = {} THEN ""
        ELSE TrimSpace(results[CHOOSE k \in good : \A j \in good : k <= j].text)

\* getAttribute: <<value, ok>>
getAttribute(attr) ==
    IF attr.err \/ ~attr.ok THEN <<"", FALSE>> ELSE <<TrimSpace(attr.val), TRUE>>

NoSocialCheck(u) == FALSE
isSocialDomain(u) == ContainsAny(ToLower(u), socialDomainsToSkip)

GoldWhenEmptyOnly(website) == website = ""
isGoldWebsite(website) ==
    LET w == TrimSpace(ToLower(website)) IN w = "" \/ Contains(w, "g.page")

-----------------------------------------------------------------------------
(* collectPlaceURLs.                                                       *)

\* The first selector whose count could be evaluated and is positive, or "".
\* counts[k] is what the count script gave for googleMapsResultSelectors[k].
FirstSelectorAnyway(counts) == googleMapsResultSelectors[1]
resultSelectorOf(counts) ==
    LET good == {k \in 1..Len(googleMapsResultSelectors) : ~counts[k].err /\ counts[k].count > 0}
    IN  IF good = {} THEN ""
        ELSE googleMapsResultSelectors[CHOOSE k \in good : \A j \in good : k <= j]

\* maxScrolls: cfg.MaxScrollAttempts, or the default when that is not positive.
maxScrolls(c) ==
    IF c.MaxScrollAttempts <= 0 THEN DefaultMaxScrollAttempts ELSE c.MaxScrollAttempts

\* The hrefs the read script returns: those that hold "/maps/place/".
RECURSIVE PlaceHrefs(_)
PlaceHrefs(hrefs) ==
    IF hrefs = <<>> THEN <<>>
    ELSE (IF Head(hrefs) # "" /\ Contains(Head(hrefs), "/maps/place/")
          THEN <<Head(hrefs)>> ELSE <<>>) \o PlaceHrefs(Tail(hrefs))

SeqToSet(q) == {q[k] : k \in 1..Len(q)}

\* The stall counter after a read that did or did not grow the set.
CountStallNoReset(grew, noNewCount) == IF grew THEN noNewCount ELSE noNewCount + 1
CountStall(grew, noNewCount) == IF grew THEN 0 ELSE noNewCount + 1

\* scrollAttempts at the end of the loop body.
CountScrollOnGoodRead(scrollAttempts, readErr) ==
    IF readErr THEN scrollAttempts ELSE scrollAttempts + 1
NextScrollAttempts(scrollAttempts, readErr) == scrollAttempts + 1

\* The references in the order of their first appearance in the reads.
RECURSIVE AppendNew(_, _)
AppendNew(order, urls) ==
    IF urls = <<>> THEN order
    ELSE AppendNew(IF Head(urls) \in SeqToSet(order) THEN order ELSE Append(order, Head(urls)),
                   Tail(urls))

\* `for u := range allURLs`: Go leaves the iteration order of a map
\* unspecified and randomizes it, so every order of the keys can come out.
MapRangeOrders(set) ==
    {q \in [1..Cardinality(set) -> set] : SeqToSet(q) = set}

\* results[:maxResults] when a positive cap is exceeded
Truncate(results, maxResults) ==
    IF maxResults > 0 /\ Len(results) > maxResults THEN SubSeq(results, 1, maxResults)
    ELSE results

\* One pass of the loop body: the read, the stall bookkeeping and, unless the
\* loop breaks, the scroll.
LoopBody(c, g, read) ==
    LET urls         == PlaceHrefs(read.hrefs)
        allURLs      == IF read.err THEN c.allURLs ELSE c.allURLs \cup SeqToSet(urls)
        currentCount == Cardinality(allURLs)
        grew         == ~read.err /\ currentCount > c.lastCount
        noNewCount   == IF read.err THEN c.noNewCount ELSE CountStall(grew, c.noNewCount)
        break        == ~read.err /\ ~grew /\ noNewCount >= StallThreshold
    IN  [break |-> break,
         col   |-> [c EXCEPT !.allURLs = allURLs,
                             !.lastCount = IF grew THEN currentCount ELSE c.lastCount,
                             !.noNewCount = noNewCount,
                             !.scrollAttempts =
                                 IF break THEN c.scrollAttempts
                                 ELSE NextScrollAttempts(c.scrollAttempts, read.err)],
         gcol  |-> [g EXCEPT !.firstSeen = IF read.err THEN g.firstSeen
                                           ELSE AppendNew(g.firstSeen, urls),
                             !.reads = g.reads + 1,
                             !.lastGrowth = IF grew THEN g.reads + 1 ELSE g.lastGrowth,
                             !.readFailed = g.readFailed \/ read.err]]

-----------------------------------------------------------------------------
(* The enrichment chain: scrapePlacePage and scrapeWebsite.                *)

contactKeywords ==
    <<"Contact", "contact", "CONTACT", "Kontakt", "kontakt", "Contacto", "contacto",
      "Contatto", "contatto", "Contactez", "contactez", "Impressum", "impressum",
      "About", "about">>

\* findContactLink: the href of the first anchor that has one and whose
\* trimmed text holds a keyword; "" when the script fails or finds none.
findContactLink(link) ==
    LET good == {k \in 1..Len(link.anchors) :
                    /\ link.anchors[k].href # ""
                    /\ ContainsAny(TrimSpace(link.anchors[k].text), contactKeywords)}
        found == IF good = {} THEN ""
                 ELSE link.anchors[CHOOSE k \in good : \A j \in good : k <= j].href
        href  == TrimSpace(found)
    IN  IF link.err \/ href = "" THEN ""
        ELSE IF Len(href) >= 2 /\ SubSeq(href, 1, 2) = "//" THEN "https:" \o href
        ELSE href

\* scrapeWebsite: the homepage, and the contact page when the homepage shows
\* no email.  contactTried tells whether the contact page was navigated to.
scrapeWebsite(site, minDigits) ==
    LET email0     == extractFirstEmail(site.html)
        phone0     == extractPhone(site.html, minDigits)
        contactURL == IF email0 = "" THEN findContactLink(site.link) ELSE ""
        tried      == contactURL # ""
        loaded     == tried /\ ~site.contactNavErr /\ ~site.contactHtmlErr
    IN  IF site.navErr \/ site.htmlErr
        THEN [email |-> "", phone |-> "", err |-> TRUE, contactTried |-> FALSE]
        ELSE [email        |-> IF loaded THEN extractFirstEmail(site.contactHtml) ELSE email0,
              phone        |-> IF loaded /\ phone0 = ""
                               THEN extractPhone(site.contactHtml, minDigits) ELSE phone0,
              err          |-> FALSE,
              contactTried |-> tried]

\* The condition under which scrapePlacePage visits the website.
shouldScrapeWebsite(website) ==
    /\ website # ""
    /\ ~isSocialDomain(website)
    /\ ~Contains(ToLower(website), "g.page")

\* The merge of what the website gave into what the detail page gave.
mergeEmailKeepFirst(email, wEmail) == IF email # "" THEN email ELSE wEmail
mergeEmail(email, wEmail) == IF wEmail # "" THEN wEmail ELSE email

mergePhone(phone, wPhone) == IF wPhone # "" /\ phone = "" THEN wPhone ELSE phone

\* Where scrapePlacePage goes after the website step: the error is logged
\* and the lead is inserted all the same.
ReturnOnWebsiteError(err) == IF err THEN "logged" ELSE "insert"
AfterWebsite(err) == "insert"

\* The fields scrapePlacePage takes from the detail page d.
detailFields(d, minDigits) ==
    LET name    == extractTextBySelectors(d.name)
        fromHTML == extractWebsiteFromHTML(d.html)
        attr    == getAttribute(d.authority)
        website == IF fromHTML = "" /\ attr[2] THEN attr[1] ELSE fromHTML
    IN  [name    |-> IF name = "" THEN "Unknown" ELSE name,
         address |-> extractTextBySelectors(d.address),
         phone   |-> extractPhone(d.html, minDigits),
         email   |-> extractFirstEmail(d.html),
         website |-> cleanWebsiteURL(website),
         rating  |-> parseRating(extractTextBySelectors(d.rating))]

\* The Business scrapePlacePage builds.
Business(c, query, now) ==
    [Name |-> c.name, Address |-> c.address, Phone |-> c.phone, Website |-> c.website,
     Email |-> c.email, Rating |-> c.rating, Query |-> query, ScrapedAt |-> now]

-----------------------------------------------------------------------------
(* The lead store: table businesses and insertBusiness.                    *)

\* b.ScrapedAt.Format(time.RFC3339): the layout has no fractional seconds, so
\* the stored text names a whole second; it is represented by that second.
FormatRFC3339(t) == t \div TicksPerSecond

\* The column values insertBusiness binds to its statement.
RowValues(b) ==
    [name       |-> b.Name,
     address    |-> b.Address,
     phone      |-> b.Phone,
     website    |-> b.Website,
     email      |-> b.Email,
     rating     |-> b.Rating,
     query      |-> b.Query,
     scraped_at |-> FormatRFC3339(b.ScrapedAt)]

Columns == {"name", "address", "phone", "website", "email", "rating", "query", "scraped_at"}

\* Comparison of TEXT values in an index: the schema names no collation, so
\* SQLite uses BINARY, which compares the bytes.
IndexCollate(text) == text

\* idx_businesses_email_website: would the new row collide with a stored one?
NoUniqueIndex(rows, v) == FALSE
UniqueConflict(rows, v) ==
    \E i \in 1..Len(rows) :
        /\ IndexCollate(rows[i].email) = IndexCollate(v.email)
        /\ IndexCollate(rows[i].website) = IndexCollate(v.website)

\* id INTEGER PRIMARY KEY AUTOINCREMENT: one more than the largest id so far.
NextId(rows) == Len(rows) + 1

\* The error db.Exec returns: OR IGNORE turns a uniqueness conflict into a
\* skipped row, so only a failure of the storage itself is reported.
ErrOnConflict(conflict, fault) == IF fault \/ conflict THEN "error" ELSE "nil"
ExecErr(conflict, fault) == IF fault THEN "error" ELSE "nil"

\* What INSERT OR REPLACE would do: the colliding row gives way to the new one.
insertOrReplace(rows, b, fault) ==
    LET v    == RowValues(b)
        kept == SelectSeq(rows, LAMBDA r : ~(r.email = v.email /\ r.website = v.website))
    IN  [rows |-> IF fault THEN rows
                  ELSE Append(kept, [c \in Columns \cup {"id"} |->
                                        IF c = "id" THEN NextId(rows) ELSE v[c]]),
         err  |-> ExecErr(FALSE, fault)]

\* insertBusiness: INSERT OR IGNORE of one row; the sql.Result is dropped and
\* only the error is returned.
insertBusiness(rows, b, fault) ==
    LET v        == RowValues(b)
        conflict == UniqueConflict(rows, v)
    IN  [rows |-> IF fault \/ conflict
                  THEN rows
                  ELSE Append(rows, [c \in Columns \cup {"id"} |->
                                        IF c = "id" THEN NextId(rows) ELSE v[c]]),
         err  |-> ExecErr(conflict, fault)]

\* What a caller of insertBusiness holds after the call, with what the call
\* met in the table.
CallRecord(rows, b, fault, prev) ==
    LET r       == insertBusiness(rows, b, fault)
        existed == \E i \in 1..Len(rows) :
                       rows[i].email = b.Email /\ rows[i].website = b.Website
        again   == prev.called /\ prev.b = b /\ prev.err = "nil" /\ r.err = "nil"
    IN  [called       |-> TRUE,
         b            |-> b,
         err          |-> r.err,
         fault        |-> fault,
         existed      |-> existed,
         lenBefore    |-> Len(rows),
         twice        |-> again,
         firstExisted |-> again /\ prev.existed]

NoCall ==
    [called |-> FALSE, b |-> <<>>, err |-> "nil", fault |-> FALSE, existed |-> FALSE,
     lenBefore |-> 0, twice |-> FALSE, firstExisted |-> FALSE]

-----------------------------------------------------------------------------
(* Leads put by SpecStore: every key of StoreEmails x StoreWebsites, each  *)
(* with two different businesses behind it.                                *)

StoreEmails == {"", "info@x.co", "Info@X.co"}
StoreWebsites == {"", "https://x.co/"}

PayloadA ==
    [Name |-> "Acme", Address |-> "1 Main St", Phone |-> "(555) 123-4567",
     Rating |-> 45, Query |-> "cafe Athens", ScrapedAt |-> 2]
PayloadB ==
    [Name |-> "Unknown", Address |-> "", Phone |-> "",
     Rating |-> 0, Query |-> "cafe Patras", ScrapedAt |-> 5]

Lead(p, email, website) ==
    [Name |-> p.Name, Address |-> p.Address, Phone |-> p.Phone, Website |-> website,
     Email |-> email, Rating |-> p.Rating, Query |-> p.Query, ScrapedAt |-> p.ScrapedAt]

StoreLeads ==
    {Lead(p, e, w) : p \in {PayloadA, PayloadB}, e \in StoreEmails, w \in StoreWebsites}

-----------------------------------------------------------------------------
(* Values of the pipeline's variables before they are first assigned.      *)

defaultConfig ==
    [SearchTerm |-> "", Locations |-> <<>>, MaxResultsPerQuery |-> 0, PhoneMinDigits |-> 10,
     MaxScrollAttempts |-> 20]

NoEnv == [name |-> "store"]

NoCol ==
    [probe |-> <<>>, resultSelector |-> "", allURLs |-> {}, lastCount |-> 0,
     scrollAttempts |-> 0, noNewCount |-> 0]

NoGcol ==
    [firstSeen |-> <<>>, reads |-> 0, lastGrowth |-> 0, readFailed |-> FALSE]

NoCur ==
    [name |-> "", address |-> "", phone |-> "", email |-> "", website |-> "", rating |-> 0]

NoObs ==
    [detailOk |-> FALSE, detailEmail |-> "", detailPhone |-> "",
     siteTried |-> FALSE, siteErr |-> FALSE, contactTried |-> FALSE,
     wEmail |-> "", wPhone |-> "", puts |-> 0, page |-> <<>>, report |-> "",
     plain |-> [email |-> "", phone |-> ""]]

-----------------------------------------------------------------------------
(* SpecStore: runs that open the database and put leads into it.           *)

InitStore ==
    /\ store = <<>>
    /\ dbOpen = FALSE
    /\ nput = 0
    /\ last = NoCall
    /\ seen = {}
    /\ env = NoEnv
    /\ cfg = defaultConfig
    /\ queries = <<>>
    /\ pc = "store"
    /\ qi = 1
    /\ col = NoCol
    /\ gcol = NoGcol
    /\ placeURLs = <<>>
    /\ ci = 1
    /\ cur = NoCur
    /\ obs = NoObs
    /\ cancelled = FALSE
    /\ visits = <<>>

\* initDB: CREATE TABLE / CREATE INDEX IF NOT EXISTS keep the rows of earlier runs.
initDB ==
    /\ pc = "store"
    /\ ~dbOpen
    /\ dbOpen' = TRUE
    /\ UNCHANGED <<store, nput, last, seen, conf, pipeVars>>

\* The deferred db.Close() when main returns.
closeDB ==
    /\ pc = "store"
    /\ dbOpen
    /\ nput < MaxPuts
    /\ dbOpen' = FALSE
    /\ UNCHANGED <<store, nput, last, seen, conf, pipeVars>>

\* One call of insertBusiness with a lead b.
Put(b, fault) ==
    LET r == insertBusiness(store, b, fault)
    IN  /\ store' = r.rows
        /\ nput' = nput + 1
        /\ last' = CallRecord(store, b, fault, last)
        /\ seen' = seen \cup {<<r.err, Len(r.rows) > Len(store)>>}

StorePut ==
    /\ dbOpen
    /\ nput < MaxPuts
    /\ pc = "store"
    /\ \E b \in StoreLeads, fault \in BOOLEAN : Put(b, fault)
    /\ UNCHANGED <<dbOpen, conf, pipeVars>>

NextStore == initDB \/ closeDB \/ StorePut

SpecStore == InitStore /\ [][NextStore]_vars

-----------------------------------------------------------------------------
(* What the outside can answer: the pages the browser shows, the failures  *)
(* of its operations, the clock and the disk.                              *)

Html(emails, phones1, phones2, sites) ==
    [emails |-> emails, phones |-> <<phones1, phones2>>, sites |-> sites]

Txt(t) == [err |-> FALSE, text |-> t]
TxtErr == [err |-> TRUE, text |-> ""]
Cnt(n) == [err |-> FALSE, count |-> n]
CntErr == [err |-> TRUE, count |-> 0]
Attr(v) == [err |-> FALSE, ok |-> TRUE, val |-> v]

PlaceURL(i) == "https://google.com/maps/place/p" \o CharAt(Digits, i + 1)
Places(n) == {PlaceURL(i) : i \in 1..n}

NoHtml == Html(<<>>, <<>>, <<>>, <<>>)

\* Detail pages.
DetailFull ==
    Html(<<"noreply@maps.example.com", "Owner@acme.gr">>,
         <<"19902024", "(555) 123-4567">>, <<"(555) 123-4567">>,
         <<"https://www.gstatic.com/a.js", "https://acme.gr/?utm=maps#top">>)
DetailPhoneOnly == Html(<<>>, <<"(555) 123-4567">>, <<"(555) 123-4567">>, <<>>)
DetailEmailOnly == Html(<<"owner@acme.gr">>, <<>>, <<>>, <<"https://g.page/acme">>)

Detail(navErr, htmlErr, html, authority, name, rating) ==
    [navErr |-> navErr, htmlErr |-> htmlErr, html |-> html, authority |-> authority,
     name |-> name, address |-> <<TxtErr, Txt("1 Main St "), TxtErr>>, rating |-> rating]

DetailNavFails ==
    Detail(TRUE, FALSE, NoHtml, [err |-> TRUE, ok |-> FALSE, val |-> ""], <<TxtErr, TxtErr>>,
           <<TxtErr, TxtErr>>)
DetailHtmlFails == [DetailNavFails EXCEPT !.navErr = FALSE, !.htmlErr = TRUE]

RichDetails ==
    {DetailNavFails, DetailHtmlFails} \cup
    {Detail(FALSE, FALSE, html, authority, name, rating) :
        html \in {NoHtml, DetailFull, DetailPhoneOnly, DetailEmailOnly},
        authority \in {[err |-> TRUE, ok |-> FALSE, val |-> ""],
                       [err |-> FALSE, ok |-> FALSE, val |-> ""],
                       Attr("https://www.facebook.com/acme"),
                       Attr(" https://www.google.com/url?q=https://acme.gr/contact&sa=U "),
                       Attr("https://G.page/r/acme")},
        name \in {<<TxtErr, TxtErr>>, <<Txt("  "), Txt(" Acme Cafe ")>>},
        rating \in {<<TxtErr, TxtErr>>, <<Txt("4,5 stars"), TxtErr>>}}

ThinDetails ==
    {DetailNavFails,
     Detail(FALSE, FALSE, DetailFull, Attr("https://www.facebook.com/acme"),
            <<Txt("Acme Cafe"), TxtErr>>, <<Txt("4,5 stars"), TxtErr>>),
     Detail(FALSE, FALSE, NoHtml, [err |-> FALSE, ok |-> FALSE, val |-> ""],
            <<TxtErr, TxtErr>>, <<TxtErr, TxtErr>>)}

\* Business websites and their contact pages.
SiteFull == Html(<<"info@acme.gr">>, <<"555-000-0000">>, <<"555-000-0000">>, <<>>)
SitePhoneOnly == Html(<<"you@example.com">>, <<"555-000-0000">>, <<"555-000-0000">>, <<>>)
ContactFull == Html(<<"hello@acme.gr">>, <<"555-999-0000">>, <<"555-999-0000">>, <<>>)

NoLink == [err |-> FALSE, anchors |-> <<[text |-> "Home", href |-> "https://acme.gr/"]>>]
LinkErr == [err |-> TRUE, anchors |-> <<>>]
ContactLink ==
    [err |-> FALSE,
     anchors |-> <<[text |-> "Contact", href |-> ""],
                   [text |-> " Contact us ", href |-> "//acme.gr/contact"]>>]

Site(navErr, htmlErr, html, link, contactNavErr, contactHtmlErr, contactHtml) ==
    [navErr |-> navErr, htmlErr |-> htmlErr, html |-> html, link |-> link,
     contactNavErr |-> contactNavErr, contactHtmlErr |-> contactHtmlErr,
     contactHtml |-> contactHtml]

SiteNavFails == Site(TRUE, FALSE, NoHtml, LinkErr, FALSE, FALSE, NoHtml)
SiteHtmlFails == Site(FALSE, TRUE, NoHtml, LinkErr, FALSE, FALSE, NoHtml)

RichSites ==
    {SiteNavFails, SiteHtmlFails} \cup
    {Site(FALSE, FALSE, html, link, FALSE, FALSE, NoHtml) :
        html \in {NoHtml, SiteFull, SitePhoneOnly}, link \in {NoLink, LinkErr}} \cup
    {Site(FALSE, FALSE, html, ContactLink, e[1], e[2], contactHtml) :
        html \in {NoHtml, SiteFull, SitePhoneOnly},
        e \in {<<FALSE, FALSE>>, <<TRUE, FALSE>>, <<FALSE, TRUE>>},
        contactHtml \in {NoHtml, ContactFull}}

ThinSites ==
    {SiteNavFails, Site(FALSE, FALSE, SiteFull, NoLink, FALSE, FALSE, NoHtml)}

\* Detail pages and websites that differ in what the patterns match in them.
NoAttr == [err |-> FALSE, ok |-> FALSE, val |-> ""]

MatchLists(matches) == UNION {[1..k -> matches] : k \in 0..MaxMatches}

FieldEmails ==
    {"noreply@acme.gr", "Sales@Example.COM", "logo@2x.png", "sales@realbiz.co", "Info@x.co"}

FieldPhones ==
    {"19902024", "55512345", "0000000000", "(555) 123-4567", "+1 555-123-4567",
     "1234567890123456"}

FieldSiteLists ==
    {<<>>,
     <<"https://www.gstatic.com/a.js", "https://acme.gr/?utm=maps#top">>,
     <<"https://realbiz.co/contact#team">>}

FieldAuthorities ==
    {NoAttr,
     Attr(" https://www.google.com/url?q=https://realbiz.co/contact&sa=U "),
     Attr("https://www.google.com/url?q=https://acme.gr/?a=1&sa=U"),
     Attr("https://realbiz.co/?utm=x#frag"),
     Attr("https://acme.gr/ ?utm=x"),
     Attr("https://www.facebook.com/acme?ref=maps")}

FieldDetail(html, authority) ==
    Detail(FALSE, FALSE, html, authority, <<Txt("Acme Cafe"), TxtErr>>, <<TxtErr, TxtErr>>)

FieldDetails ==
    {DetailNavFails} \cup
    {FieldDetail(Html(e, <<>>, <<>>, <<>>), NoAttr) : e \in MatchLists(FieldEmails)} \cup
    {FieldDetail(Html(<<>>, p1, p2, <<>>), NoAttr) :
        p1 \in MatchLists(FieldPhones), p2 \in {<<>>, <<"(555) 123-4567">>}} \cup
    {FieldDetail(Html(<<>>, <<>>, <<>>, sites), a) :
        sites \in FieldSiteLists, a \in FieldAuthorities}

FieldSites ==
    {SiteNavFails,
     Site(FALSE, FALSE, Html(<<"you@example.com", "info@acme.gr">>, <<>>, <<>>, <<>>), NoLink,
          FALSE, FALSE, NoHtml),
     Site(FALSE, FALSE, Html(<<"Logo@2x.PNG">>, <<"19902024">>, <<>>, <<>>), ContactLink,
          FALSE, FALSE,
          Html(<<"NoReply@acme.gr", "hello@acme.gr">>, <<"2024-2025", "555-999-0000">>, <<>>, <<>>))}

\* What the count script gives for the four selectors.
ThinCounts ==
    {<<CntErr, Cnt(0), Cnt(0), Cnt(0)>>, <<Cnt(0), CntErr, Cnt(2), Cnt(2)>>}
SomeCounts ==
    ThinCounts \cup
    {<<CntErr, CntErr, CntErr, CntErr>>, <<Cnt(0), Cnt(0), Cnt(0), Cnt(0)>>,
     <<Cnt(2), Cnt(0), CntErr, Cnt(2)>>, <<CntErr, Cnt(0), Cnt(0), Cnt(2)>>}

\* What one read of the feed gives: an error, or the hrefs of the elements.
Read(hrefs) == [err |-> FALSE, hrefs |-> hrefs]
ReadErr == [err |-> TRUE, hrefs |-> <<>>]

ThinReads == {ReadErr, Read(<<>>), Read(<<PlaceURL(1), PlaceURL(1), PlaceURL(2)>>)}
ReadLengths == {0, 1, 2}
AllReads(n) ==
    {ReadErr, Read(<<"https://google.com/maps/about", PlaceURL(1)>>)} \cup
    {Read(q) : q \in UNION {[1..k -> Places(n)] : k \in ReadLengths}}

\* A table left by an earlier run.
EarlierRows == insertBusiness(<<>>, Lead(PayloadB, "", ""), FALSE).rows

\* What reading a line from standard input gives: scanner.Scan() and, when
\* it is true, scanner.Text(); when it is false, whether scanner.Err() is set.
NoInput == [ok |-> FALSE, err |-> FALSE, text |-> ""]
StdinOutcomes ==
    {NoInput, [ok |-> FALSE, err |-> TRUE, text |-> ""], [ok |-> TRUE, err |-> FALSE, text |-> "  "],
     [ok |-> TRUE, err |-> FALSE, text |-> " bar "]}

ThinEnv ==
    [name |-> "thin", stdin |-> {NoInput}, searchNavErr |-> BOOLEAN, counts |-> SomeCounts, reads |-> ThinReads,
     details |-> ThinDetails, sites |-> ThinSites, dbFaults |-> {FALSE}, clock |-> {7}]

CollectEnv ==
    [ThinEnv EXCEPT !.name = "collect", !.counts = ThinCounts, !.reads = AllReads(NumPlaces)]

PlaceEnv ==
    [ThinEnv EXCEPT !.name = "place", !.counts = ThinCounts, !.details = RichDetails, !.sites = RichSites,
                    !.dbFaults = BOOLEAN, !.clock = {7, 8}]

FieldsEnv ==
    [ThinEnv EXCEPT !.name = "fields", !.counts = ThinCounts, !.details = FieldDetails,
                    !.sites = FieldSites]

\* The least a run needs to pass through every step.
StartEnv ==
    [ThinEnv EXCEPT !.name = "start", !.searchNavErr = {FALSE}, !.counts = ThinCounts,
                    !.reads = {Read(<<PlaceURL(1)>>)},
                    !.details = {DetailNavFails, FieldDetail(NoHtml, NoAttr)}]

Locations == <<"Athens", "Patras">>
LocationsOf(n) == [i \in 1..n |-> Locations[((i - 1) % Len(Locations)) + 1]]

\* What config.json can hold as the search term and the locations.
SearchTerms == {"", "  ", " cafe "}
LocationEntries == {"", "  ", "Athens", " Patras "}
LocationLists == UNION {[1..k -> LocationEntries] : k \in 0..MaxLocations}

-----------------------------------------------------------------------------
(* buildQueries.                                                           *)

\* The queries for the cities of the list, in its order.
RECURSIVE cityQueriesUnfiltered(_, _)
cityQueriesUnfiltered(search, locations) ==
    IF locations = <<>> THEN <<>>
    ELSE <<search \o " " \o TrimSpace(Head(locations))>>
         \o cityQueriesUnfiltered(search, Tail(locations))

\* The same without the cities that are blank.
RECURSIVE cityQueries(_, _)
cityQueries(search, locations) ==
    IF locations = <<>> THEN <<>>
    ELSE (IF TrimSpace(Head(locations)) = "" THEN <<>>
          ELSE <<search \o " " \o TrimSpace(Head(locations))>>)
         \o cityQueries(search, Tail(locations))

\* buildQueries: the search term of the config or, when that is blank, the
\* line read from standard input; err is "" for a nil error.  cfg.SearchTerm
\* is assigned once a term is known.
buildQueries(c, in) ==
    LET given   == TrimSpace(c.SearchTerm)
        search  == IF given # "" THEN given
                   ELSE IF in.ok THEN TrimSpace(in.text) ELSE ""
        built   == cityQueries(search, c.Locations)
        err     == IF given = "" /\ ~in.ok /\ in.err THEN "scanner error"
                   ELSE IF search = "" THEN "no search term entered"
                   ELSE IF Len(c.Locations) = 0 THEN "no locations in config.json"
                   ELSE IF Len(built) = 0 THEN "no valid locations in config.json"
                   ELSE ""
    IN  [queries |-> IF err = "" THEN built ELSE <<>>,
         err     |-> err,
         cfg     |-> IF search = "" THEN c ELSE [c EXCEPT !.SearchTerm = search]]

-----------------------------------------------------------------------------
(* The run: main, scrapeQuery, collectPlaceURLs, scrapePlacePage.          *)

\* chromedp.Run on a context derived from rootCtx (setupChrome): once rootCtx
\* is cancelled the operation returns the context's error instead of what
\* the browser would have answered.
viaBrowser(stop, outcomes, aborted) == IF stop THEN {aborted} ELSE outcomes

AllCntErr == <<CntErr, CntErr, CntErr, CntErr>>

\* The condition under which main's loop runs its body once more.
IgnoreStop(i, n, stop) == i <= n
loopRuns(i, n, stop) == i <= n /\ ~stop

\* main once loadConfig has returned: the database file may hold the rows of
\* earlier runs.
InitMain(envs, configs, stores) ==
    /\ store \in stores
    /\ dbOpen = FALSE
    /\ nput = 0
    /\ last = NoCall
    /\ seen = {}
    /\ env \in envs
    /\ cfg \in configs
    /\ queries = <<>>
    /\ pc = "start"
    /\ qi = 1
    /\ col = NoCol
    /\ gcol = NoGcol
    /\ placeURLs = <<>>
    /\ ci = 1
    /\ cur = NoCur
    /\ obs = NoObs
    /\ cancelled = FALSE
    /\ visits = <<>>

\* A run in the environment e whose config has the search term "cafe" and n
\* locations.
InitRun(e, configs, n, stores) ==
    InitMain({e},
             {[c EXCEPT !.SearchTerm = "cafe", !.Locations = LocationsOf(n)] : c \in configs},
             stores)

Init ==
    InitRun(ThinEnv,
            {[defaultConfig EXCEPT !.MaxScrollAttempts = 4, !.MaxResultsPerQuery = m] :
                m \in {0, 1}},
            NumQueries, {<<>>, EarlierRows})

InitCollect ==
    InitRun(CollectEnv,
            {[defaultConfig EXCEPT !.MaxScrollAttempts = c[1], !.MaxResultsPerQuery = c[2]] :
                c \in {<<-1, 0>>, <<0, 1>>, <<5, -1>>, <<5, 1>>}},
            1, {<<>>})

InitPlace ==
    InitRun(PlaceEnv,
            {[defaultConfig EXCEPT !.MaxScrollAttempts = 1, !.MaxResultsPerQuery = 1,
                                   !.PhoneMinDigits = d] : d \in {8, 10}},
            1, {<<>>, EarlierRows})

InitFields ==
    InitRun(FieldsEnv,
            {[defaultConfig EXCEPT !.MaxScrollAttempts = 1, !.MaxResultsPerQuery = 1,
                                   !.PhoneMinDigits = d] : d \in {8, 10}},
            1, {<<>>})

\* Any search term and locations, and any answer of standard input.
InitStart ==
    InitMain({[StartEnv EXCEPT !.stdin = {in}] : in \in StdinOutcomes},
             {[defaultConfig EXCEPT !.SearchTerm = t, !.Locations = l,
                                    !.MaxScrollAttempts = 1, !.MaxResultsPerQuery = 1] :
                 t \in SearchTerms, l \in LocationLists},
             {<<>>})

\* main from buildQueries to the start of its loop: an error of buildQueries
\* is fatal (log.Fatalf exits the process); else the database is opened and
\* the browser is set up.
MainStart ==
    /\ pc = "start"
    /\ \E in \in env.stdin :
          LET r == buildQueries(cfg, in)
          IN  /\ cfg' = r.cfg
              /\ queries' = r.queries
              /\ pc' = IF r.err # "" THEN "fatal" ELSE "main"
              /\ dbOpen' = (r.err = "")
    /\ UNCHANGED <<store, nput, last, seen, env, qi, col, gcol, placeURLs, ci, cur, obs,
                   cancelled, visits>>

\* signal.NotifyContext: an interrupt or SIGTERM cancels rootCtx, at any
\* moment between the setup and the end of main.
Signal ==
    /\ pc \notin {"store", "start", "fatal", "done"}
    /\ ~cancelled
    /\ cancelled' = TRUE
    /\ UNCHANGED <<storeVars, conf, pc, qi, col, gcol, placeURLs, ci, cur, obs, visits>>

\* The head of main's loop: the next query is taken unless rootCtx is cancelled.
MainLoop ==
    /\ pc = "main"
    /\ loopRuns(qi, Len(queries), cancelled)
    /\ pc' = "query"
    /\ UNCHANGED <<storeVars, conf, qi, col, gcol, placeURLs, ci, cur, obs, cancelled, visits>>

\* scrapeQuery opens the search page of the query; a failed navigation ends
\* the query.
ScrapeQueryOpen ==
    /\ pc = "query"
    /\ \E navErr \in viaBrowser(cancelled, env.searchNavErr, TRUE) :
          IF navErr
          THEN /\ qi' = qi + 1
               /\ pc' = "main"
          ELSE /\ pc' = "select"
               /\ UNCHANGED qi
    /\ UNCHANGED <<storeVars, conf, col, gcol, placeURLs, ci, cur, obs, cancelled, visits>>

\* collectPlaceURLs picks its selector; with none, it returns its error,
\* scrapeQuery logs it and returns, and main goes on to the next query.
CollectSelect ==
    /\ pc = "select"
    /\ \E counts \in viaBrowser(cancelled, env.counts, AllCntErr) :
          LET resultSelector == resultSelectorOf(counts)
          IN  /\ col' = [NoCol EXCEPT !.probe = counts, !.resultSelector = resultSelector]
              /\ gcol' = NoGcol
              /\ IF resultSelector = ""
                 THEN /\ qi' = qi + 1
                      /\ pc' = "main"
                 ELSE /\ pc' = "scroll"
                      /\ UNCHANGED qi
    /\ UNCHANGED <<storeVars, conf, placeURLs, ci, cur, obs, cancelled, visits>>

\* One iteration of the loop of collectPlaceURLs.
CollectIterate ==
    /\ pc = "scroll"
    /\ col.scrollAttempts < maxScrolls(cfg)
    /\ \E read \in viaBrowser(cancelled, env.reads, ReadErr) :
          LET r == LoopBody(col, gcol, read)
          IN  /\ col' = r.col
              /\ gcol' = r.gcol
              /\ pc' = IF r.break THEN "collected" ELSE "scroll"
    /\ UNCHANGED <<storeVars, conf, qi, placeURLs, ci, cur, obs, cancelled, visits>>

\* After the loop: the keys of the map in the order range gives them, cut to
\* the cap; scrapeQuery starts on the first of them.
CollectFinish ==
    /\ \/ pc = "collected"
       \/ pc = "scroll" /\ col.scrollAttempts >= maxScrolls(cfg)
    /\ \E results \in MapRangeOrders(col.allURLs) :
          placeURLs' = Truncate(results, cfg.MaxResultsPerQuery)
    /\ ci' = 1
    /\ pc' = "place"
    /\ col' = NoCol
    /\ gcol' = NoGcol
    /\ visits' = <<>>
    /\ UNCHANGED <<storeVars, conf, qi, cur, obs, cancelled>>

\* scrapePlacePage up to the rating: the detail page is opened and read, and
\* the fields are taken from it.  A failure to open or read it is returned.
ScrapePlacePage ==
    /\ pc = "place"
    /\ ci <= Len(placeURLs)
    /\ \E d \in viaBrowser(cancelled, env.details, DetailNavFails) :
          IF d.navErr \/ d.htmlErr
          THEN /\ pc' = "logged"
               /\ cur' = NoCur
               /\ obs' = NoObs
          ELSE LET f == detailFields(d, cfg.PhoneMinDigits)
               IN  /\ pc' = "enrich"
                   /\ cur' = f
                   /\ obs' = [NoObs EXCEPT !.detailOk = TRUE, !.detailEmail = f.email,
                                           !.detailPhone = f.phone,
                                           !.page = [html |-> d.html,
                                                     authority |-> d.authority],
                                           !.plain = [email |-> f.email, phone |-> f.phone]]
    /\ visits' = Append(visits, placeURLs[ci])
    /\ UNCHANGED <<storeVars, conf, qi, col, gcol, placeURLs, ci, cancelled>>

\* email and phone after the website step, given what scrapeWebsite returned.
merged(c, w) ==
    IF w.err THEN [email |-> c.email, phone |-> c.phone]
    ELSE [email |-> mergeEmail(c.email, w.email), phone |-> mergePhone(c.phone, w.phone)]

\* The website step of scrapePlacePage.  site is what the website would show;
\* obs.plain keeps what the step would have given had rootCtx not been
\* cancelled.
Enrich ==
    /\ pc = "enrich"
    /\ IF shouldScrapeWebsite(cur.website)
       THEN \E site \in env.sites :
               LET seenSite == CHOOSE x \in viaBrowser(cancelled, {site}, SiteNavFails) : TRUE
                   w        == scrapeWebsite(seenSite, cfg.PhoneMinDigits)
                   m        == merged(cur, w)
               IN  /\ cur' = [cur EXCEPT !.email = m.email, !.phone = m.phone]
                   /\ obs' = [obs EXCEPT !.siteTried = TRUE, !.siteErr = w.err,
                                         !.contactTried = w.contactTried,
                                         !.wEmail = w.email, !.wPhone = w.phone,
                                         !.plain = merged(cur, scrapeWebsite(site,
                                                                  cfg.PhoneMinDigits))]
                   /\ pc' = AfterWebsite(w.err)
       ELSE /\ pc' = "insert"
            /\ UNCHANGED <<cur, obs>>
    /\ UNCHANGED <<storeVars, conf, qi, col, gcol, placeURLs, ci, cancelled, visits>>

\* The line scrapePlacePage logs after its insert: none when insertBusiness
\* failed (the error is returned), else the GOLD line or the Saved line.
reportLine(err, website) ==
    IF err # "nil" THEN "" ELSE IF isGoldWebsite(website) THEN "gold" ELSE "saved"

\* The end of scrapePlacePage: the Business is built and inserted, and the
\* outcome is logged.
Insert ==
    /\ pc = "insert"
    /\ \E now \in env.clock, fault \in env.dbFaults :
          LET b == Business(cur, queries[qi], now)
          IN  /\ Put(b, fault)
              /\ obs' = [obs EXCEPT !.puts = @ + 1,
                                    !.report = reportLine(insertBusiness(store, b, fault).err,
                                                          cur.website)]
    /\ pc' = "logged"
    /\ UNCHANGED <<dbOpen, conf, qi, col, gcol, placeURLs, ci, cur, cancelled, visits>>

\* The index of the reference the loop of scrapeQuery takes after the one at
\* i, whether scrapePlacePage returned an error for it or not.
RetryFailed(i, failed) == IF failed THEN i ELSE i + 1
nextIndex(i, failed) == i + 1

\* scrapeQuery logs the error of scrapePlacePage, if any, waits, and takes
\* the next reference.
NextCandidate ==
    /\ pc = "logged"
    /\ ci' = nextIndex(ci, obs.report = "")
    /\ cur' = NoCur
    /\ obs' = NoObs
    /\ pc' = "place"
    /\ UNCHANGED <<storeVars, conf, qi, col, gcol, placeURLs, cancelled, visits>>

\* scrapeQuery returns after the last reference; main goes on.
QueryDone ==
    /\ pc = "place"
    /\ ci > Len(placeURLs)
    /\ qi' = qi + 1
    /\ placeURLs' = <<>>
    /\ ci' = 1
    /\ pc' = "main"
    /\ UNCHANGED <<storeVars, conf, col, gcol, cur, obs, cancelled, visits>>

\* main leaves its loop, after the last query or on the shutdown signal, and
\* returns: the deferred calls close the database.
MainDone ==
    /\ pc = "main"
    /\ ~loopRuns(qi, Len(queries), cancelled)
    /\ pc' = "done"
    /\ dbOpen' = FALSE
    /\ UNCHANGED <<store, nput, last, seen, conf, qi, col, gcol, placeURLs, ci, cur, obs,
                   cancelled, visits>>

Next ==
    \/ MainStart
    \/ Signal
    \/ MainLoop
    \/ ScrapeQueryOpen
    \/ CollectSelect
    \/ CollectIterate
    \/ CollectFinish
    \/ ScrapePlacePage
    \/ Enrich
    \/ Insert
    \/ NextCandidate
    \/ QueryDone
    \/ MainDone

Spec == Init /\ [][Next]_vars

SpecCollect == InitCollect /\ [][Next]_vars

SpecPlace == InitPlace /\ [][Next]_vars

SpecFields == InitFields /\ [][Next]_vars

SpecStart == InitStart /\ [][Next]_vars

-----------------------------------------------------------------------------
(* Claims about the lead store, checked under SpecStore.                   *)

RowsWithPair(email, website) ==
    {i \in 1..Len(store) : store[i].email = email /\ store[i].website = website}

HoldsFields(i, b) == \A c \in Columns : store[i][c] = RowValues(b)[c]

NoTwoRowsSharePair ==
    \A i, j \in 1..Len(store) :
        (store[i].email = store[j].email /\ store[i].website = store[j].website) => i = j

\* C1 as stated: no two stored rows share an (email, website) pair, and after
\* put(L); put(L) there is exactly one row for L's pair and it holds L's fields.
C1_PutTwiceHoldsL ==
    /\ NoTwoRowsSharePair
    /\ last.twice =>
          /\ Cardinality(RowsWithPair(last.b.Email, last.b.Website)) = 1
          /\ \A i \in RowsWithPair(last.b.Email, last.b.Website) : HoldsFields(i, last.b)

\* C1 amended: no two stored rows share an (email, website) pair; after
\* put(L); put(L) there is exactly one row for L's pair, and it holds L's
\* fields when no row with that pair was stored before the first of the two puts.
C1_UniquePairAndPutTwice ==
    /\ NoTwoRowsSharePair
    /\ last.twice =>
          /\ Cardinality(RowsWithPair(last.b.Email, last.b.Website)) = 1
          /\ ~last.firstExisted =>
                \A i \in RowsWithPair(last.b.Email, last.b.Website) : HoldsFields(i, last.b)

\* C1 witness: L was put twice into a table that held other rows but none with
\* L's pair.
C1_Witness ==
    /\ last.twice
    /\ ~last.firstExisted
    /\ Len(store) >= 2
    /\ RowsWithPair(last.b.Email, last.b.Website) # {}

\* C2: the duplicate key is case-insensitive in the email: no two stored rows
\* have the same website and emails that differ only in letter case.
C2_KeyIgnoresEmailCase ==
    \A i, j \in 1..Len(store) :
        (store[i].website = store[j].website
            /\ ToLower(store[i].email) = ToLower(store[j].email)) => i = j

\* C3 as stated: what put returns tells its caller whether the lead was
\* inserted: two calls that return the same never differ in having added a row.
C3_CallerCanTellInserted ==
    \A o1, o2 \in seen : o1[1] = o2[1] => o1[2] = o2[2]

\* C3 amended: put returns only an error, which is nil both when the lead was
\* inserted and when it was ignored as a duplicate (and non-nil only when the
\* storage fails); a row is added exactly when the pair was not stored before.
C3_NilErrorInsertedOrIgnored ==
    last.called =>
        /\ last.err = "nil" <=> ~last.fault
        /\ ~last.fault =>
              Len(store) = last.lenBefore + (IF last.existed THEN 0 ELSE 1)
        /\ last.fault => Len(store) = last.lenBefore

\* C3 witness: a duplicate was ignored and its caller got a nil error, after
\* another call that inserted its lead had returned nil as well.
C3_Witness ==
    /\ last.called /\ last.existed /\ ~last.fault /\ last.err = "nil"
    /\ Len(store) = last.lenBefore
    /\ <<"nil", TRUE>> \in seen

\* C21: a put whose (email, website) pair is that of a stored row, the pair
\* of two empty strings included, leaves the table as it was: no row is
\* added and no column of the stored row changes, whatever business the new
\* lead describes; so the table never holds two rows with empty email and
\* empty website.
C21_DuplicatePutChangesNothing ==
    /\ [](Cardinality(RowsWithPair("", "")) <= 1)
    /\ [][(nput' = nput + 1 /\ RowsWithPair(last'.b.Email, last'.b.Website) # {}) =>
             store' = store]_vars

\* C21 witness: a lead with empty email and empty website was put while a
\* row of another business with that pair was stored, and that row is still
\* the only one with the pair and holds the other business's name.
C21_Witness ==
    /\ last.called /\ last.existed /\ ~last.fault
    /\ last.b.Email = "" /\ last.b.Website = ""
    /\ Len(store) = last.lenBefore
    /\ Cardinality(RowsWithPair("", "")) = 1
    /\ \A i \in RowsWithPair("", "") : store[i].name # last.b.Name

-----------------------------------------------------------------------------
(* Claims about collectPlaceURLs, checked under SpecCollect.               *)

\* C4: while every read succeeds, the stall counter is the number of reads
\* since the last read that grew the set (growth resets it to zero), the
\* loop is left on the 3rd read in a row without growth, and so it has made
\* at most k+3 reads when the set last grew on read k (k = 0: it never grew).
C4_ExitOnThirdStall ==
    (pc \in {"scroll", "collected"} /\ ~gcol.readFailed) =>
        /\ col.noNewCount = gcol.reads - gcol.lastGrowth
        /\ gcol.reads <= gcol.lastGrowth + 3
        /\ pc = "collected" <=> col.noNewCount = 3

\* C4 witness: the set last grew on read 3, after a read without growth, and
\* the loop was left on read 6.
C4_Witness ==
    /\ pc = "collected"
    /\ ~gcol.readFailed
    /\ gcol.lastGrowth = 3
    /\ gcol.reads = 6
    /\ Cardinality(col.allURLs) = 2

\* C5: the loop body runs at most MaxScrollAttempts times, 20 when the
\* configured value is not positive, whatever the reads and scrolls do.
C5_AtMostMaxScrolls ==
    LET bound == IF cfg.MaxScrollAttempts <= 0 THEN 20 ELSE cfg.MaxScrollAttempts
    IN  /\ gcol.reads <= bound
        /\ col.scrollAttempts <= bound

\* C5 witness: with a configured value of 0 or less the loop has run 20 times,
\* some of its reads failing, and is over.
C5_Witness ==
    /\ pc = "scroll"
    /\ cfg.MaxScrollAttempts <= 0
    /\ gcol.reads = 20
    /\ col.scrollAttempts = 20
    /\ gcol.readFailed
    /\ col.allURLs # {}

\* C6: collectPlaceURLs returns the references in the order in which the
\* feed first showed them, cut to the first cap of them when a positive cap
\* is exceeded.
C6_ReturnsInsertionOrder ==
    [][(pc \in {"scroll", "collected"} /\ pc' = "place") =>
          placeURLs' = (IF cfg.MaxResultsPerQuery > 0
                           /\ Len(gcol.firstSeen) > cfg.MaxResultsPerQuery
                        THEN SubSeq(gcol.firstSeen, 1, cfg.MaxResultsPerQuery)
                        ELSE gcol.firstSeen)]_vars

-----------------------------------------------------------------------------
(* Claims about the run, checked under Spec.                               *)

NoneCounted(probe) == \A k \in 1..Len(probe) : probe[k].err \/ probe[k].count = 0

\* C7: when no selector yields a non-zero count, collectPlaceURLs fails before
\* any read or scroll, the query is given up without a retry and without a
\* lead being put, and main is at its loop with the next query.
C7_NoPanelAbandonsQuery ==
    [][/\ qi' \in {qi, qi + 1}
       /\ (pc = "select" /\ pc' # pc /\ NoneCounted(col'.probe)) =>
             /\ pc' = "main"
             /\ qi' = qi + 1
             /\ col'.scrollAttempts = 0
             /\ gcol'.reads = 0
             /\ store' = store
             /\ nput' = nput
             /\ placeURLs' = <<>>]_vars

\* C7 witness: the first query was given up for want of a results panel and
\* the search page of the second query is open.
C7_Witness ==
    /\ pc = "select"
    /\ qi = 2
    /\ Len(col.probe) = 4
    /\ NoneCounted(col.probe)
    /\ nput = 0

\* C15: once the shutdown signal has been received, main's loop starts no
\* query: an iteration begins, and a search page is opened, only for a loop
\* head passed before the signal, and at the loop head after the signal main
\* leaves the loop without touching the store.
C15_NoQueryAfterSignal ==
    [][/\ (pc' = "query" /\ pc # "query") => (pc = "main" /\ ~cancelled /\ ~cancelled')
       /\ (pc' = "select" /\ pc # "select") => pc = "query"
       /\ cancelled => cancelled'
       /\ (pc = "main" /\ cancelled) =>
             (pc' = "done" /\ qi' = qi /\ store' = store /\ nput' = nput)]_vars

\* C15 witness: main has left its loop on the signal after the first query,
\* with the second query never started.
C15_Witness ==
    /\ pc = "done"
    /\ cancelled
    /\ qi = 2
    /\ Len(queries) = 2
    /\ nput >= 1

\* C16: a signal that arrives while a candidate is being processed does not
\* abort its browser operations: the lead has the email and the phone it
\* would have had without the signal, and is put so.
C16_InFlightWorkFinishes ==
    (pc \in {"insert", "logged"} /\ obs.detailOk) =>
        /\ cur.email = obs.plain.email
        /\ cur.phone = obs.plain.phone
        /\ pc = "logged" =>
              (last.b.Email = obs.plain.email /\ last.b.Phone = obs.plain.phone)

\* The entries of a locations list that are not blank, trimmed.
NonBlank(locations) ==
    LET kept == SelectSeq(locations, LAMBDA l : TrimSpace(l) # "")
    IN  [i \in 1..Len(kept) |-> TrimSpace(kept[i])]

\* Has a search term been supplied, by the config or on standard input?
TermSupplied ==
    \/ TrimSpace(cfg.SearchTerm) # ""
    \/ \E in \in env.stdin : in.ok /\ TrimSpace(in.text) # ""

\* C17: when no search term is supplied, or the locations list is empty or
\* holds only blank entries, the run ends at buildQueries: the store is not
\* opened, no query is built or run, and nothing is done after; otherwise
\* there is one query for each non-blank location, in the order of the list,
\* made of the non-empty term, a space and the trimmed location.
C17_ConfigDefectHalts ==
    /\ [](pc # "start" =>
             /\ pc = "fatal" <=> ~(TermSupplied /\ NonBlank(cfg.Locations) # <<>>)
             /\ pc = "fatal" =>
                   (~dbOpen /\ queries = <<>> /\ store = <<>> /\ nput = 0 /\ qi = 1
                       /\ ~cancelled)
             /\ pc # "fatal" =>
                   /\ cfg.SearchTerm # "" /\ TrimSpace(cfg.SearchTerm) = cfg.SearchTerm
                   /\ Len(queries) = Len(NonBlank(cfg.Locations))
                   /\ \A i \in 1..Len(queries) :
                         /\ NonBlank(cfg.Locations)[i] # ""
                         /\ queries[i] = cfg.SearchTerm \o " " \o NonBlank(cfg.Locations)[i])
    /\ [][pc # "fatal" /\ (pc = "start" => pc' \in {"fatal", "main"})]_vars

\* C17 witness: a config with a search term and two locations, both blank,
\* has ended the run at buildQueries.
C17_Witness ==
    /\ pc = "fatal"
    /\ cfg.SearchTerm = "cafe"
    /\ Len(cfg.Locations) = 2
    /\ ~dbOpen
    /\ queries = <<>>

Distinct(q) == \A i, j \in 1..Len(q) : q[i] = q[j] => i = j

\* C18: the references of a query are distinct and are handed to
\* scrapePlacePage one after the other, each exactly once, in their order;
\* after a candidate, failed or not, the next reference is taken, and the
\* query ends only when every reference has been handed over, main going on
\* to its loop head with the next query.
C18_EachCandidateOnce ==
    /\ [](pc \in {"place", "enrich", "insert", "logged"} =>
             /\ Distinct(placeURLs)
             /\ Distinct(visits)
             /\ visits = SubSeq(placeURLs, 1, IF pc = "place" THEN ci - 1 ELSE ci))
    /\ [][/\ (pc = "logged" /\ pc' # pc) => (pc' = "place" /\ ci' = ci + 1 /\ qi' = qi)
          /\ (pc = "place" /\ pc' # pc /\ ci <= Len(placeURLs)) =>
                (pc' \in {"enrich", "logged"} /\ visits' = Append(visits, placeURLs[ci]))
          /\ (pc = "place" /\ pc' = "main") =>
                (visits = placeURLs /\ qi' = qi + 1)]_vars

\* C18 witness: in the second query the first candidate's detail page failed,
\* nothing was put for it, and the second candidate has been handed over and
\* read.
C18_Witness ==
    /\ qi = 2
    /\ pc = "enrich"
    /\ ci = 2
    /\ Len(placeURLs) = 2
    /\ visits = placeURLs
    /\ nput = 0
    /\ ~cancelled

-----------------------------------------------------------------------------
(* Claims about the enrichment chain, checked under SpecPlace.             *)

SiteGave == obs.siteTried /\ ~obs.siteErr

LastRowHolds(email, phone) ==
    /\ store # <<>>
    /\ store[Len(store)].email = email
    /\ store[Len(store)].phone = phone

\* C8: the lead's email is the website's when the website step succeeded with
\* a non-empty email, else the detail page's; its phone is the detail page's
\* when that is non-empty, else the website's.
C8_MergeRule ==
    (pc \in {"insert", "logged"} /\ obs.detailOk) =>
        LET email == IF SiteGave /\ obs.wEmail # "" THEN obs.wEmail ELSE obs.detailEmail
            phone == IF obs.detailPhone # "" THEN obs.detailPhone
                     ELSE IF SiteGave THEN obs.wPhone ELSE ""
        IN  /\ cur.email = email
            /\ cur.phone = phone
            /\ pc = "logged" => (last.b.Email = email /\ last.b.Phone = phone)
            /\ (pc = "logged" /\ ~last.existed /\ ~last.fault) => LastRowHolds(email, phone)

\* C8 witness: both pages showed an email and a phone; the row stored has the
\* website's email and the detail page's phone.
C8_Witness ==
    /\ pc = "logged"
    /\ SiteGave
    /\ obs.detailEmail # "" /\ obs.wEmail # "" /\ obs.wEmail # obs.detailEmail
    /\ obs.detailPhone # "" /\ obs.wPhone # "" /\ obs.wPhone # obs.detailPhone
    /\ ~last.existed /\ ~last.fault
    /\ LastRowHolds(obs.wEmail, obs.detailPhone)

\* C9: once the detail page is read, insertBusiness is called exactly once for
\* the candidate whatever the website and contact-page navigations do, and
\* when the website step fails the lead has the detail page's email and phone.
C9_WebsiteFailureStillPuts ==
    /\ obs.puts <= 1
    /\ pc \in {"enrich", "insert"} => (obs.detailOk /\ obs.puts = 0)
    /\ (pc = "logged" /\ obs.detailOk) =>
          /\ obs.puts = 1
          /\ last.called
          /\ last.b.Website = cur.website
          /\ (obs.siteTried /\ obs.siteErr) =>
                (last.b.Email = obs.detailEmail /\ last.b.Phone = obs.detailPhone)

\* C9 witness: the website could not be loaded and the row stored has the
\* detail page's email and phone.
C9_Witness ==
    /\ pc = "logged"
    /\ obs.siteTried /\ obs.siteErr
    /\ obs.puts = 1
    /\ obs.detailEmail # "" /\ obs.detailPhone # ""
    /\ ~last.existed /\ ~last.fault
    /\ LastRowHolds(obs.detailEmail, obs.detailPhone)

\* C10: a candidate whose website is empty, holds a social-platform domain or
\* holds "g.page" has no website or contact page navigated to, and its lead
\* has the detail page's email and phone.
C10_ExcludedWebsiteNotVisited ==
    (/\ pc \in {"insert", "logged"}
     /\ obs.detailOk
     /\ \/ cur.website = ""
        \/ \E k \in 1..Len(socialDomainsToSkip) : Contains(cur.website, socialDomainsToSkip[k])
        \/ Contains(cur.website, "g.page")) =>
        /\ ~obs.siteTried
        /\ ~obs.contactTried
        /\ cur.email = obs.detailEmail
        /\ cur.phone = obs.detailPhone
        /\ pc = "logged" =>
              (last.b.Email = obs.detailEmail /\ last.b.Phone = obs.detailPhone)

\* C10 witness: a candidate whose website is a Facebook page was stored with
\* the detail page's phone.
C10_Witness ==
    /\ pc = "logged"
    /\ Contains(cur.website, "facebook.com")
    /\ obs.detailPhone # ""
    /\ obs.puts = 1
    /\ ~last.existed /\ ~last.fault
    /\ LastRowHolds(obs.detailEmail, obs.detailPhone)

\* C11 as stated: a lead is reported as gold if and only if its website is
\* empty or contains "g.page".
C11_GoldIffEmptyOrMarker ==
    (pc = "logged" /\ obs.report # "") =>
        (obs.report = "gold" <=> (last.b.Website = "" \/ Contains(last.b.Website, "g.page")))

\* C11 amended: a lead is reported as gold if and only if its website, in
\* lower case and without surrounding white space, is empty or contains
\* "g.page"; so a lead whose website was kept from enrichment as a
\* social-platform link, and holds no such marker, is not gold.
C11_GoldIffEmptyOrMarkerAnyCase ==
    (pc = "logged" /\ obs.report # "") =>
        LET w == TrimSpace(ToLower(last.b.Website))
        IN  /\ last.b.Website = cur.website
            /\ obs.report = "gold" <=> (w = "" \/ Contains(w, "g.page"))
            /\ (isSocialDomain(w) /\ ~Contains(w, "g.page")) =>
                  (~obs.siteTried /\ obs.report = "saved")

\* C11 witness: a lead whose website holds the marker was stored and reported
\* as gold, without its website having been visited.
C11_Witness ==
    /\ pc = "logged"
    /\ obs.report = "gold"
    /\ Contains(ToLower(cur.website), "g.page")
    /\ ~obs.siteTried
    /\ ~last.existed /\ ~last.fault
    /\ store[Len(store)].website = cur.website

\* C20: the contact page is navigated to only when the attempt holds no
\* email after the extractions from the detail page and from the website's
\* homepage: never when the detail page gave an email.
C20_ContactOnlyWithoutEmail ==
    (pc \in {"insert", "logged"} /\ obs.detailOk /\ obs.contactTried) =>
        obs.detailEmail = ""

-----------------------------------------------------------------------------
(* Claims about the field extractors, checked under SpecFields.            *)

\* C12: the stored website is the resolved link with a "/url?q=" wrapper
\* replaced by its target up to the next '&' and then cut at the first '?' or
\* '#'; it holds no '?' and no '#', and canonicalizing it again returns it
\* unchanged.
C12_StoredWebsiteCanonical ==
    (pc \in {"enrich", "insert", "logged"} /\ obs.detailOk) =>
        LET fromHTML == extractWebsiteFromHTML(obs.page.html)
            resolved == IF fromHTML # "" THEN fromHTML ELSE getAttribute(obs.page.authority)[1]
            w        == cur.website
        IN  /\ w = cleanWebsiteURL(resolved)
            /\ ~Contains(w, "?") /\ ~Contains(w, "#") /\ ~Contains(w, "/url?q=")
            /\ cleanWebsiteURL(w) = w
            /\ (pc = "logged" /\ ~last.existed /\ ~last.fault) => store[Len(store)].website = w

\* C19: the website is the value of the attribute lookup on the detail
\* page's website link when that yields one, and the address matched in the
\* markup only when it yields none.
C19_AttributeLookupFirst ==
    (pc \in {"enrich", "insert", "logged"} /\ obs.detailOk) =>
        LET attr     == getAttribute(obs.page.authority)
            fromHTML == extractWebsiteFromHTML(obs.page.html)
        IN  cur.website =
                cleanWebsiteURL(IF attr[2] /\ attr[1] # "" THEN attr[1] ELSE fromHTML)

\* Is an email match free of every excluded pattern, compared in lower case?
EmailAllowed(m) ==
    \A k \in 1..Len(invalidEmailPatterns) : ~Contains(ToLower(m), invalidEmailPatterns[k])

\* Is r the first match of matches, in document order, that is allowed, or
\* empty when none is allowed?
IsFirstAllowed(r, matches) ==
    \/ r = "" /\ \A k \in 1..Len(matches) : ~EmailAllowed(matches[k])
    \/ \E k \in 1..Len(matches) :
          /\ r = matches[k]
          /\ EmailAllowed(matches[k])
          /\ \A j \in 1..(k - 1) : ~EmailAllowed(matches[j])

\* C13: extractFirstEmail returns the first match in document order that
\* holds no excluded pattern (compared in lower case), or empty when every
\* match is excluded; so the email of the lead and of every stored row,
\* whichever page it came from, is empty or holds no excluded pattern.
C13_FirstAllowedEmail ==
    /\ obs.detailOk => IsFirstAllowed(obs.detailEmail, obs.page.html.emails)
    /\ EmailAllowed(obs.wEmail)
    /\ EmailAllowed(cur.email)
    /\ last.called => EmailAllowed(last.b.Email)
    /\ \A i \in 1..Len(store) : EmailAllowed(store[i].email)

\* C13 witness: the detail page's first match was excluded by a pattern it
\* holds in another letter case, and the row stored has the second match.
C13_Witness ==
    /\ pc = "logged"
    /\ obs.detailOk
    /\ Len(obs.page.html.emails) = 2
    /\ ~EmailAllowed(obs.page.html.emails[1])
    /\ ~ContainsAny(obs.page.html.emails[1], invalidEmailPatterns)
    /\ obs.detailEmail = obs.page.html.emails[2]
    /\ store # <<>>
    /\ store[Len(store)].email = obs.page.html.emails[2]

\* Is a phone match acceptable: minDigits to 15 digits, not all the same, and
\* not 8 digits that start with a year from 1900 to 2100?
PhoneAcceptable(m, minDigits) ==
    LET digits == OnlyDigits(m)
        d      == Len(digits)
    IN  /\ minDigits <= d /\ d <= 15
        /\ \E i \in 1..d : CharAt(digits, i) # CharAt(digits, 1)
        /\ ~(d = 8 /\ Atoi(SubSeq(digits, 1, 4)) \in 1900..2100)

\* C14: the phone extractPhone returns is the first acceptable match, the
\* matches of the first pattern before those of the second, formatted, and
\* is empty when no match is acceptable; with minDigits of 8 or less
\* "19902024" is rejected and "55512345" is accepted.
C14_PhoneFromAcceptableMatch ==
    (pc \in {"enrich", "insert", "logged"} /\ obs.detailOk) =>
        LET all == obs.page.html.phones[1] \o obs.page.html.phones[2]
            ok(k) == PhoneAcceptable(all[k], cfg.PhoneMinDigits)
        IN  /\ obs.detailPhone = "" <=> \A k \in 1..Len(all) : ~ok(k)
            /\ obs.detailPhone # "" =>
                  \E k \in 1..Len(all) :
                      /\ ok(k)
                      /\ \A j \in 1..(k - 1) : ~ok(j)
                      /\ obs.detailPhone = formatPhone(all[k])
            /\ all = <<"19902024">> => obs.detailPhone = ""
            /\ (all = <<"19902024", "55512345">> /\ cfg.PhoneMinDigits <= 8) =>
                  obs.detailPhone = "55512345"

\* C14 witness: with minDigits 8 the page showed "19902024" and then
\* "55512345", and the row stored has the phone "55512345".
C14_Witness ==
    /\ pc = "logged"
    /\ obs.detailOk
    /\ cfg.PhoneMinDigits = 8
    /\ obs.page.html.phones[1] = <<"19902024", "55512345">>
    /\ obs.page.html.phones[2] = <<>>
    /\ store # <<>>
    /\ store[Len(store)].phone = "55512345"

=============================================================================
